---- MODULE Spec2Model ----
(***************************************************************************)
(* Model of src/main.rs: the Polynomial value type (construction with      *)
(* length validation and a stable sort by degree, differentiation,         *)
(* evaluation).                                                            *)
(*                                                                         *)
(* An f64 is modelled exactly as a dyadic number <<m, e>> standing for     *)
(* m * 2^e with m odd, or <<0, 0>> for zero.  Every value the model        *)
(* produces is exactly representable in an f64, so no rounding occurs; the *)
(* guards of Differentiate and Compute keep the model inside that exact    *)
(* range.  An i32 is an integer in I32Min..I32Max.                         *)
(***************************************************************************)
EXTENDS Integers, Sequences, FiniteSets, TLC

\* ---------------------------------------------------------------- bounds
MaxLen == 3          \* longest input vector handed to Polynomial::new
MaxDiffs == 4        \* longest chain of differentiate calls
MaxPow == 8          \* compute is applied to terms with |degree| <= MaxPow
MaxMantissa == 1000000  \* differentiate is applied while products stay exact

\* ------------------------------------------------------------ i32 and f64
I32Max == 2147483647
I32Min == -I32Max - 1

Abs(n) == IF n < 0 THEN -n ELSE n

RECURSIVE Normalize(_, _)
Normalize(m, e) ==
    IF m = 0 THEN <<0, 0>>
    ELSE IF m % 2 = 0 THEN Normalize(m \div 2, e + 1)
    ELSE <<m, e>>

\* `degree as f64`: every i32 is exactly representable
as_f64(n) == Normalize(n, 0)

RECURSIVE Pow2(_)
Pow2(k) == IF k <= 0 THEN 1 ELSE 2 * Pow2(k - 1)

\* f64 multiplication (exact: the product of two odd mantissas is odd)
mul(a, b) ==
    IF a[1] = 0 \/ b[1] = 0 THEN <<0, 0>>
    ELSE <<a[1] * b[1], a[2] + b[2]>>

\* f64 addition (exact)
add(a, b) ==
    IF a[1] = 0 THEN b
    ELSE IF b[1] = 0 THEN a
    ELSE LET e == IF a[2] < b[2] THEN a[2] ELSE b[2]
         IN  Normalize(a[1] * Pow2(a[2] - e) + b[1] * Pow2(b[2] - e), e)

\* 1.0 / a, for a = +-2^e
recip(a) == <<a[1], -a[2]>>

\* x.powi(n): integer-exponent power; x^0 is 1.0 for every x
powi_zero_vanishing(x) == IF x[1] = 0 THEN as_f64(0) ELSE as_f64(1)

powi_zero(x) == as_f64(1)

RECURSIVE powi_pos(_, _)
powi_pos(x, n) == IF n = 0 THEN powi_zero(x) ELSE mul(x, powi_pos(x, n - 1))

powi(x, n) == IF n < 0 THEN recip(powi_pos(x, -n)) ELSE powi_pos(x, n)

\* ------------------------------------------------------------ input sets
Coefficients == {as_f64(1), as_f64(2)}
Degrees == {I32Min, -1, 0, 1, 2}
Points == {as_f64(-2), as_f64(-1), as_f64(0), as_f64(1), as_f64(2)}

SeqsUpTo(S, n) == UNION {[1..k -> S] : k \in 0..n}

\* ------------------------------------------------------------- Polynomial
Polynomial(c, d) == [coefficients |-> c, degrees |-> d]

\* Iterator::zip stops at the shorter of the two
zip(a, b) ==
    LET n == IF Len(a) < Len(b) THEN Len(a) ELSE Len(b)
    IN  [i \in 1..n |-> <<a[i], b[i]>>]

unzip_first(s) == [i \in 1..Len(s) |-> s[i][1]]
unzip_second(s) == [i \in 1..Len(s) |-> s[i][2]]

\* new: `coefficients.len() != degrees.len()`
mismatch_shorter(coefficients, degrees) == Len(coefficients) < Len(degrees)

mismatch(coefficients, degrees) == Len(coefficients) # Len(degrees)

\* new: the comparator `a.0.cmp(&b.0)`: a, already placed, stays in front of
\* the later element b unless a.0 is Greater
stays_before_descending(a, b) == a[1] >= b[1]

stays_before_strict(a, b) == a[1] < b[1]

stays_before(a, b) == a[1] <= b[1]

Front(s) == SubSeq(s, 1, Len(s) - 1)
Last(s) == s[Len(s)]

RECURSIVE insert(_, _)
insert(s, t) ==
    IF s = <<>> THEN <<t>>
    ELSE IF stays_before(Last(s), t) THEN Append(s, t)
    ELSE Append(insert(Front(s), t), Last(s))

\* slice::sort_by: a stable sort
RECURSIVE sort_by(_)
sort_by(s) == IF s = <<>> THEN <<>> ELSE insert(sort_by(Front(s)), Last(s))

\* Polynomial::new on equal-length inputs
new_degrees_only(coefficients, degrees) ==
    LET combined == sort_by(zip(degrees, coefficients))
    IN  Polynomial(coefficients, unzip_first(combined))

new(coefficients, degrees) ==
    LET combined == sort_by(zip(degrees, coefficients))
        sorted_degrees == unzip_first(combined)
        sorted_coefficients == unzip_second(combined)
    IN  Polynomial(sorted_coefficients, sorted_degrees)

\* differentiate: `.filter(|&(degree, _)| degree != 0)`
keeps_all(degree) == TRUE

keeps_inverted(degree) == degree = 0

keeps(degree) == degree # 0

RECURSIVE filter(_)
filter(s) ==
    IF s = <<>> THEN <<>>
    ELSE IF keeps(Last(s)[1]) THEN Append(filter(Front(s)), Last(s))
    ELSE filter(Front(s))

\* differentiate: `degree - 1` on i32.  At i32::MIN the subtraction
\* overflows: a build with overflow checks panics, one without wraps.
overflows(degree) == degree = I32Min
wrapping_dec(degree) == IF degree = I32Min THEN I32Max ELSE degree - 1

\* differentiate: `.map(|(degree, coefficient)| (degree - 1, coefficient * degree as f64))`
map_term(t) == <<wrapping_dec(t[1]), mul(t[2], as_f64(t[1]))>>

differentiate(self) ==
    LET kept == filter(zip(self.degrees, self.coefficients))
        filtered == [i \in 1..Len(kept) |-> map_term(kept[i])]
    IN  Polynomial(unzip_second(filtered), unzip_first(filtered))

\* does some `degree - 1` of this differentiate call overflow?
panics(self) ==
    LET kept == filter(zip(self.degrees, self.coefficients))
    IN  \E i \in 1..Len(kept) : overflows(kept[i][1])

\* compute: `.map(|(&coefficient, &degree)| coefficient * x.powi(degree)).sum()`
RECURSIVE sum(_)
sum(s) == IF s = <<>> THEN as_f64(0) ELSE add(sum(Front(s)), Last(s))

compute(self, x) ==
    LET pairs == zip(self.coefficients, self.degrees)
    IN  sum([i \in 1..Len(pairs) |-> mul(pairs[i][1], powi(x, pairs[i][2]))])

\* ---------------------------------------------------- range of the model
\* coefficient * degree is exact and its mantissa stays below MaxMantissa
ExactProduct(c, d) ==
    LET dm == Abs(as_f64(d)[1])
    IN  IF dm = 0 THEN TRUE ELSE Abs(c[1]) <= MaxMantissa \div dm

ExactDerivative(self) ==
    \A i \in 1..Len(self.degrees) :
        i <= Len(self.coefficients) => ExactProduct(self.coefficients[i], self.degrees[i])

\* every term value is finite and exact: small exponents, no 0^negative
ExactValue(self, x) ==
    /\ \A i \in 1..Len(self.degrees) :
          /\ self.degrees[i] >= -MaxPow
          /\ self.degrees[i] <= MaxPow
          /\ x[1] = 0 => self.degrees[i] >= 0
    /\ \A i \in 1..Len(self.coefficients) :
          /\ self.coefficients[i][2] >= 0
          /\ self.coefficients[i][2] <= MaxPow

\* ------------------------------------------------------------------ state
VARIABLES
    coefficients,   \* argument of Polynomial::new
    degrees,        \* argument of Polynomial::new
    pc,             \* "start", "ok", "err" (MismatchError), "panicked"
    p,              \* the Polynomial most recently produced
    self,           \* receiver of the last differentiate call
    ndiff,          \* number of differentiate calls so far
    op,             \* last operation: "none", "new", "differentiate", "compute"
    x,              \* argument of the last compute call
    y               \* value returned by the last compute call

vars == <<coefficients, degrees, pc, p, self, ndiff, op, x, y>>

Empty == Polynomial(<<>>, <<>>)

Init ==
    /\ coefficients \in SeqsUpTo(Coefficients, MaxLen)
    /\ degrees \in SeqsUpTo(Degrees, MaxLen)
    /\ pc = "start"
    /\ p = Empty
    /\ self = Empty
    /\ ndiff = 0
    /\ op = "none"
    /\ x = as_f64(0)
    /\ y = as_f64(0)

NewErr ==
    /\ pc = "start"
    /\ mismatch(coefficients, degrees)
    /\ pc' = "err"
    /\ op' = "new"
    /\ UNCHANGED <<coefficients, degrees, p, self, ndiff, x, y>>

NewOk ==
    /\ pc = "start"
    /\ ~mismatch(coefficients, degrees)
    /\ pc' = "ok"
    /\ p' = new(coefficients, degrees)
    /\ op' = "new"
    /\ UNCHANGED <<coefficients, degrees, self, ndiff, x, y>>

DifferentiateReturn ==
    /\ pc = "ok"
    /\ ndiff < MaxDiffs
    /\ ExactDerivative(p)
    /\ self' = p
    /\ p' = differentiate(p)
    /\ ndiff' = ndiff + 1
    /\ op' = "differentiate"
    /\ UNCHANGED <<coefficients, degrees, pc, x, y>>

DifferentiatePanic ==
    /\ pc = "ok"
    /\ ndiff < MaxDiffs
    /\ panics(p)
    /\ self' = p
    /\ pc' = "panicked"
    /\ ndiff' = ndiff + 1
    /\ op' = "differentiate"
    /\ UNCHANGED <<coefficients, degrees, p, x, y>>

Compute ==
    /\ pc = "ok"
    /\ \E x0 \in Points :
          /\ ExactValue(p, x0)
          /\ x' = x0
          /\ y' = compute(p, x0)
    /\ op' = "compute"
    /\ UNCHANGED <<coefficients, degrees, pc, p, self, ndiff>>

Next == NewErr \/ NewOk \/ DifferentiateReturn \/ DifferentiatePanic \/ Compute

Spec == Init /\ [][Next]_vars

TypeOK ==
    /\ pc \in {"start", "ok", "err", "panicked"}
    /\ ndiff \in 0..MaxDiffs

\* ------------------------------------------------------------ properties
Returned == op = "new" /\ pc = "ok"

NonDecreasing(ds) == \A i \in 1..(Len(ds) - 1) : ds[i] <= ds[i + 1]

Distinct(ds) == \A i, j \in 1..Len(ds) : i # j => ds[i] # ds[j]

\* the coefficients, in order, of the terms of degree v
RECURSIVE CoefficientsAt(_, _, _)
CoefficientsAt(cs, ds, v) ==
    IF cs = <<>> \/ ds = <<>> THEN <<>>
    ELSE IF Last(ds) = v
         THEN Append(CoefficientsAt(Front(cs), Front(ds), v), Last(cs))
         ELSE CoefficientsAt(Front(cs), Front(ds), v)

\* C1: Polynomial::new returns MismatchError exactly when the two input
\* lengths differ; every equal-length input, the empty one included, yields
\* a Polynomial.
C1_MismatchIffLengthsDiffer ==
    pc # "start" =>
        /\ (pc = "err") <=> (Len(coefficients) # Len(degrees))
        /\ op = "new" => pc \in {"ok", "err"}
        /\ (op = "new" /\ Len(coefficients) = Len(degrees)) => pc = "ok"

C1_Witness ==
    /\ op = "new"
    /\ pc = "err"
    /\ Len(coefficients) = 0
    /\ Len(degrees) > 0

\* C2: the degree sequence of every constructed Polynomial is
\* non-decreasing, whatever the order, sign or duplication of the input.
C2_SortedAfterNew == Returned => NonDecreasing(p.degrees)

C2_Witness ==
    /\ Returned
    /\ degrees = <<1, I32Min, 1>>
    /\ p.degrees = <<I32Min, 1, 1>>

\* C3: for inputs with all-distinct degrees each input pair (c_i, d_i) sits
\* at exactly one position of the constructed Polynomial, which has as many
\* terms as the input.
C3_PairingPreserved ==
    (Returned /\ Distinct(degrees)) =>
        /\ Len(p.degrees) = Len(degrees)
        /\ Len(p.coefficients) = Len(coefficients)
        /\ \A i \in 1..Len(degrees) :
              Cardinality({j \in 1..Len(p.degrees) :
                              /\ p.coefficients[j] = coefficients[i]
                              /\ p.degrees[j] = degrees[i]}) = 1

C3_Witness ==
    /\ Returned
    /\ degrees = <<2, -1, 0>>
    /\ coefficients = <<as_f64(1), as_f64(2), as_f64(1)>>
    /\ p.coefficients = <<as_f64(2), as_f64(1), as_f64(1)>>

\* C4: the sort of Polynomial::new is stable and merges nothing: the terms of
\* one degree are all kept and keep their input order.
C4_StableNoMerge ==
    Returned =>
        /\ Len(p.degrees) = Len(degrees)
        /\ Len(p.coefficients) = Len(coefficients)
        /\ \A i \in 1..Len(degrees) :
              CoefficientsAt(p.coefficients, p.degrees, degrees[i])
                  = CoefficientsAt(coefficients, degrees, degrees[i])

C4_Witness ==
    /\ Returned
    /\ degrees = <<1, 0, 1>>
    /\ coefficients = <<as_f64(2), as_f64(1), as_f64(1)>>
    /\ p.degrees = <<0, 1, 1>>
    /\ p.coefficients = <<as_f64(1), as_f64(2), as_f64(1)>>

\* the positions, in order, of the terms of non-zero degree
RECURSIVE NonZeroPositions(_)
NonZeroPositions(ds) ==
    IF ds = <<>> THEN <<>>
    ELSE IF Last(ds) # 0 THEN Append(NonZeroPositions(Front(ds)), Len(ds))
    ELSE NonZeroPositions(Front(ds))

\* r is the mathematical d - 1 (which no i32 equals when d is i32::MIN)
IsPredecessor(r, d) == r < d /\ r + 1 = d

\* C5: differentiate removes exactly the terms of degree 0 and maps every
\* other term (d, c), in stored order, to (d - 1, c * d).
C5_DropsConstantsMapsRest ==
    op = "differentiate" =>
        LET nz == NonZeroPositions(self.degrees)
        IN  /\ pc = "ok"
            /\ Len(p.degrees) = Len(nz)
            /\ Len(p.coefficients) = Len(nz)
            /\ \A k \in 1..Len(nz) :
                  /\ IsPredecessor(p.degrees[k], self.degrees[nz[k]])
                  /\ p.coefficients[k]
                        = mul(self.coefficients[nz[k]], as_f64(self.degrees[nz[k]]))

C7_DifferentiateTotal ==
    op = "differentiate" =>
        LET nz == NonZeroPositions(self.degrees)
        IN  /\ pc = "ok"
            /\ Len(p.degrees) = Len(nz)
            /\ \A k \in 1..Len(nz) : IsPredecessor(p.degrees[k], self.degrees[nz[k]])

\* the value of an f64 that is an integer
IntOf(f) == f[1] * Pow2(f[2])

RECURSIVE IntPow(_, _)
IntPow(b, n) == IF n <= 0 THEN 1 ELSE b * IntPow(b, n - 1)

Scale == Pow2(MaxPow)

\* Scale * f, for an f64 that is a multiple of 1 / Scale
Scaled(f) == f[1] * Pow2(f[2] + MaxPow)

\* Scale * c * xi^d in integer arithmetic, where xi^0 = 1 and
\* xi^(-n) = 1 / xi^n
ScaledTerm(c, d, xi) ==
    IF d >= 0 THEN Scale * IntOf(c) * IntPow(xi, d)
    ELSE LET sign == IF xi < 0 /\ (-d) % 2 = 1 THEN -1 ELSE 1
         IN  sign * ((Scale * IntOf(c)) \div IntPow(Abs(xi), -d))

RECURSIVE ScaledSum(_, _, _)
ScaledSum(cs, ds, xi) ==
    IF cs = <<>> THEN 0
    ELSE ScaledSum(Front(cs), Front(ds), xi) + ScaledTerm(Last(cs), Last(ds), xi)

SquarePlusTwoXPlusOne ==
    /\ coefficients = <<as_f64(1), as_f64(2), as_f64(1)>>
    /\ degrees = <<2, 1, 0>>

\* C8: compute(x) is the sum over the terms of coefficient * x^degree with
\* x^0 = 1 for every x, 0 included; a single constant term k evaluates to k,
\* the zero-term Polynomial to 0, and x^2 + 2x + 1 gives 0 at -1, its first
\* derivative -2 at -2, its second derivative 2 at -2, its third 0 at -1.
C8_ComputeIsSumOfTerms ==
    op = "compute" =>
        /\ Scaled(y) = ScaledSum(p.coefficients, p.degrees, IntOf(x))
        /\ p = Empty => y = as_f64(0)
        /\ (Len(p.degrees) = 1 /\ p.degrees[1] = 0) => y = p.coefficients[1]
        /\ (SquarePlusTwoXPlusOne /\ ndiff = 0 /\ x = as_f64(-1)) => y = as_f64(0)
        /\ (SquarePlusTwoXPlusOne /\ ndiff = 1 /\ x = as_f64(-2)) => y = as_f64(-2)
        /\ (SquarePlusTwoXPlusOne /\ ndiff = 2 /\ x = as_f64(-2)) => y = as_f64(2)
        /\ (SquarePlusTwoXPlusOne /\ ndiff = 3 /\ x = as_f64(-1)) => y = as_f64(0)

C8_Witness ==
    /\ op = "compute"
    /\ SquarePlusTwoXPlusOne
    /\ ndiff = 1
    /\ p = Polynomial(<<as_f64(2), as_f64(2)>>, <<0, 1>>)
    /\ x = as_f64(-2)
    /\ y = as_f64(-2)

\* C9: every Polynomial reachable by new followed by differentiate calls has
\* a non-decreasing degree sequence and as many coefficients as degrees.
C9_SortedAndAligned ==
    pc = "ok" =>
        /\ NonDecreasing(p.degrees)
        /\ Len(p.coefficients) = Len(p.degrees)

RECURSIVE MaxOf(_)
MaxOf(ds) ==
    IF Len(ds) = 1 THEN ds[1]
    ELSE IF Last(ds) > MaxOf(Front(ds)) THEN Last(ds) ELSE MaxOf(Front(ds))

NonNegative(ds) == \A i \in 1..Len(ds) : ds[i] >= 0

\* C10: from a Polynomial of non-negative degrees with maximum degree n,
\* n + 1 differentiate calls reach the zero-term Polynomial; no differentiate
\* call increases the number of terms; differentiating the zero-term
\* Polynomial yields the zero-term Polynomial.
C10_ReachesZeroAndStays ==
    /\ (pc = "ok" /\ degrees # <<>> /\ NonNegative(degrees)
            /\ ndiff >= MaxOf(degrees) + 1) => p = Empty
    /\ (pc = "ok" /\ ndiff > 0) => Len(p.degrees) <= Len(self.degrees)
    /\ (ndiff > 0 /\ self = Empty) => (pc = "ok" /\ p = Empty)

C10_Witness ==
    /\ SquarePlusTwoXPlusOne
    /\ op = "differentiate"
    /\ ndiff = 4
    /\ self = Empty
    /\ p = Empty

====
